---- MODULE Spec2Model ----
(***************************************************************************)
(* Model of the multithreaded job queue of src/jobqueue.c.                 *)
(*                                                                         *)
(* One owning thread (Main) constructs the queue with JobQueue_new, calls  *)
(* JobQueue_addJob, JobQueue_waitOnJobs and JobQueue_free; nthreads worker *)
(* threads run threadfun.  Every statement that touches the queue is one   *)
(* step; the pthread mutex and the two condition variables are modelled by *)
(* the set of mutex holders and by the threads blocked in a wait.          *)
(* Under ConcSpec a second thread (Sub) also calls JobQueue_addJob, at any *)
(* time between the return of JobQueue_new and the call of JobQueue_free.  *)
(***************************************************************************)
EXTENDS Integers, Sequences, FiniteSets, TLC

\* Bounds of the model.
MaxThreads == 2
MaxJobs == 3
MaxWaits == 2

\* Thread identities: worker i is jq->thread[i]; Main is the owning thread;
\* Sub is another thread of the program that submits jobs.
Workers == 0 .. (MaxThreads - 1)
Main == MaxThreads
Sub == MaxThreads + 1
Threads == Workers \cup {Main, Sub}
Jobs == 1 .. MaxJobs

VARIABLES
    pc,              \* position of every thread
    lock,            \* jq->lock: the set of threads holding the mutex
    todo,            \* jq->todo: the list of jobs, head first
    acceptingJobs,   \* jq->acceptingJobs
    threadsStopped,  \* jq->threadsStopped
    nthreads,        \* jq->nthreads (the argument of JobQueue_new)
    jqState,         \* the JobQueue object: "unalloc", "live", "freed"
    threadArr,       \* jq->thread: "unalloc", "ok", "null"
    created,         \* loop counter i of JobQueue_new
    job,             \* threadfun's local job (0 is no job)
    newJob,          \* JobQueue_addJob's local job (0 is no job)
    status,          \* each thread's local status (i, j in JobQueue_new)
    nSubmitted,      \* number of JobQueue_addJob calls made
    early,           \* jobs submitted before the first JobQueue_waitOnJobs call
    dequeued,        \* per job: times a worker unlinked it from the list
    invoked,         \* per job: times its job function was called
    finished,        \* per job: times its job function returned
    jobFreed,        \* the jobs whose struct Job has been freed
    waitCalls,       \* calls of JobQueue_waitOnJobs
    waitReturns,     \* returns of JobQueue_waitOnJobs
    allocFailed,     \* the allocation that returned NULL ("none" if none)
    sigMain,         \* calls of pthread_cond_signal(&jq->wakeMain) made
    woke,            \* threads re-testing their loop after pthread_cond_wait
    subJob,          \* the local job of Sub's JobQueue_addJob (0 is no job)
    late,            \* jobs linked when threadsStopped = nthreads
    during,          \* jobs linked while a JobQueue_waitOnJobs call is pending
    exited           \* how the process ended ("no" while it runs)

vars == <<pc, lock, todo, acceptingJobs, threadsStopped, nthreads, jqState,
          threadArr, created, job, newJob, status, nSubmitted, early,
          dequeued, invoked, finished, jobFreed, waitCalls, waitReturns, allocFailed,
          sigMain, woke, subJob, late, during, exited>>

\* The fields of struct JobQueue that the threads share.
shared == <<todo, acceptingJobs, threadsStopped>>
\* What only the owner's calls change.
owner == <<nthreads, jqState, threadArr, created, newJob, nSubmitted, early,
           waitCalls, waitReturns, allocFailed>>
\* What records the signals on wakeMain and the returns from a wait.
hist == <<sigMain, woke>>
\* Sub's local job, and the record of when each job was linked.
conc == <<subJob, late, during>>
\* What only the workers' job handling changes.
jobvars == <<job, dequeued, invoked, finished, jobFreed>>

Running == exited = "no"

\* Mutant: the status is not tested.
StatusFatal_Ignored(st) == FALSE

\* if(status) ERR(status, ...): a nonzero status ends the process.
StatusFatal(st) == st # 0

\* The positions at which a thread calls a pthread function whose status it
\* then tests.
MainSyncPcs == {"new_mutex", "new_cond1", "new_cond2", "new_create",
                "add_lock", "add_signal", "add_unlock",
                "wait_lock", "wait_bcast", "wait_wait", "wait_unlock",
                "free_lock", "free_cond1", "free_cond2"}
WorkerSyncPcs == {"lock", "wait", "unlock1", "sigmain", "unlock2"}

Init ==
    /\ nthreads \in 0 .. MaxThreads
    /\ pc = [t \in Threads |-> IF t = Main THEN "new_malloc" ELSE "none"]
    /\ lock = {}
    /\ todo = << >>
    /\ acceptingJobs = 0
    /\ threadsStopped = 0
    /\ jqState = "unalloc"
    /\ threadArr = "unalloc"
    /\ created = 0
    /\ job = [w \in Workers |-> 0]
    /\ newJob = 0
    /\ status = [t \in Threads |-> 0]
    /\ nSubmitted = 0
    /\ early = 0
    /\ dequeued = [j \in Jobs |-> 0]
    /\ invoked = [j \in Jobs |-> 0]
    /\ finished = [j \in Jobs |-> 0]
    /\ jobFreed = {}
    /\ waitCalls = 0
    /\ waitReturns = 0
    /\ allocFailed = "none"
    /\ sigMain = 0
    /\ woke = {}
    /\ subJob = 0
    /\ late = {}
    /\ during = {}
    /\ exited = "no"

Goto(t, where) == pc' = [pc EXCEPT ![t] = where]

\* status = pthread_...(): the call succeeded.
Ok(t) == status' = [status EXCEPT ![t] = 0]

\* void checkmem(obj, file, line): die() when obj is NULL.
checkmem(isNull) == IF isNull THEN "die" ELSE "no"

(***************************************************************************)
(* JobQueue_new                                                            *)
(***************************************************************************)

\* jq = malloc(sizeof(JobQueue)); checkmem(jq); the three field assignments.
New_Malloc ==
    /\ Running /\ pc[Main] = "new_malloc"
    /\ \E isNull \in BOOLEAN :
         /\ exited' = checkmem(isNull)
         /\ IF isNull
            THEN /\ allocFailed' = "jq"
                 /\ UNCHANGED <<pc, shared, jqState>>
            ELSE /\ jqState' = "live"
                 /\ todo' = << >>
                 /\ acceptingJobs' = 1
                 /\ threadsStopped' = 0
                 /\ Goto(Main, "new_mutex")
                 /\ UNCHANGED allocFailed
    /\ UNCHANGED <<lock, nthreads, threadArr, created, newJob, status,
                   nSubmitted, early, jobvars, waitCalls, waitReturns>>
    /\ UNCHANGED <<hist, conc>>

\* pthread_mutex_init and the two pthread_cond_init calls, when they succeed.
New_Init ==
    /\ Running /\ pc[Main] \in {"new_mutex", "new_cond1", "new_cond2"}
    /\ Ok(Main)
    /\ Goto(Main, CASE pc[Main] = "new_mutex" -> "new_cond1"
                    [] pc[Main] = "new_cond1" -> "new_cond2"
                    [] OTHER -> "new_threads")
    /\ UNCHANGED <<lock, shared, owner, jobvars, exited>>
    /\ UNCHANGED <<hist, conc>>

\* jq->nthreads = nthreads; jq->thread = malloc(...): the result is not tested.
New_ThreadMalloc ==
    /\ Running /\ pc[Main] = "new_threads"
    /\ \E isNull \in BOOLEAN :
         /\ threadArr' = IF isNull THEN "null" ELSE "ok"
         /\ allocFailed' = IF isNull THEN "thread" ELSE allocFailed
    /\ created' = 0
    /\ Goto(Main, "new_create")
    /\ UNCHANGED <<lock, shared, nthreads, jqState, newJob, status,
                   nSubmitted, early, jobvars, waitCalls, waitReturns, exited>>
    /\ UNCHANGED <<hist, conc>>

\* One iteration of the launch loop: pthread_create(&jq->thread[i], ...)
\* succeeds and worker i starts threadfun.
New_Create ==
    /\ Running /\ pc[Main] = "new_create" /\ created < nthreads
    /\ Ok(Main)
    /\ pc' = [pc EXCEPT ![created] = "lock"]
    /\ created' = created + 1
    /\ UNCHANGED <<lock, shared, nthreads, jqState, threadArr, newJob,
                   nSubmitted, early, jobvars, waitCalls, waitReturns,
                   allocFailed, exited>>
    /\ UNCHANGED <<hist, conc>>

\* pthread_create stores the thread id through &jq->thread[i]; with a NULL
\* array that store is undefined and may fault (or go unnoticed: New_Create).
New_CreateFault ==
    /\ Running /\ pc[Main] = "new_create" /\ created < nthreads
    /\ threadArr = "null"
    /\ exited' = "segv"
    /\ UNCHANGED <<pc, lock, shared, owner, jobvars, status>>
    /\ UNCHANGED <<hist, conc>>

\* The loop ends and JobQueue_new returns jq.
New_Return ==
    /\ Running /\ pc[Main] = "new_create" /\ ~(created < nthreads)
    /\ Goto(Main, "idle")
    /\ UNCHANGED <<lock, shared, owner, jobvars, status, exited>>
    /\ UNCHANGED <<hist, conc>>

(***************************************************************************)
(* JobQueue_addJob                                                         *)
(***************************************************************************)

\* Mutant: the new job is linked at the tail of the list.
Link_AtTail(j, list) == list \o <<j>>

\* Mutant: job->next is not set, so the jobs already pending are lost.
Link_DropsRest(j, list) == <<j>>

\* job->next = jq->todo; jq->todo = job.
Link(j, list) == <<j>> \o list

\* job = malloc(sizeof(Job)); checkmem(job); job->jobfun, job->param.
AddJob_Malloc ==
    /\ Running /\ pc[Main] = "idle" /\ jqState = "live"
    /\ nSubmitted < MaxJobs
    /\ \E isNull \in BOOLEAN :
         /\ exited' = checkmem(isNull)
         /\ IF isNull
            THEN /\ allocFailed' = "job"
                 /\ UNCHANGED <<pc, newJob, nSubmitted, early>>
            ELSE /\ newJob' = nSubmitted + 1
                 /\ nSubmitted' = nSubmitted + 1
                 /\ early' = IF waitCalls = 0 THEN early + 1 ELSE early
                 /\ Goto(Main, "add_lock")
                 /\ UNCHANGED allocFailed
    /\ UNCHANGED <<lock, shared, nthreads, jqState, threadArr, created,
                   status, jobvars, waitCalls, waitReturns>>
    /\ UNCHANGED <<hist, conc>>

\* Mutant: a submission is handed over only to a worker that is waiting.
AddJob_LockWhenWaiter ==
    /\ Running /\ pc[Main] = "add_lock"
    /\ lock = {}
    /\ \E w \in Workers : pc[w] = "waiting"
    /\ lock' = {Main}
    /\ Ok(Main)
    /\ Goto(Main, "add_link")
    /\ UNCHANGED <<shared, owner, jobvars, exited>>
    /\ UNCHANGED <<hist, conc>>

\* pthread_mutex_lock(&jq->lock)
AddJob_Lock ==
    /\ Running /\ pc[Main] = "add_lock"
    /\ lock = {}
    /\ lock' = {Main}
    /\ Ok(Main)
    /\ Goto(Main, "add_link")
    /\ UNCHANGED <<shared, owner, jobvars, exited>>
    /\ UNCHANGED <<hist, conc>>

AddJob_Link ==
    /\ Running /\ pc[Main] = "add_link"
    /\ todo' = Link(newJob, todo)
    /\ late' = IF threadsStopped = nthreads THEN late \cup {newJob} ELSE late
    /\ Goto(Main, "add_signal")
    /\ UNCHANGED <<lock, acceptingJobs, threadsStopped, owner, jobvars,
                   status, exited>>
    /\ UNCHANGED <<hist, subJob, during>>

\* The workers blocked in pthread_cond_wait(&jq->wakeWorker, ...).
Waiters == {w \in Workers : pc[w] = "waiting"}

\* Mutant: the submission broadcasts wakeWorker.
AddJob_Broadcast ==
    /\ Running /\ pc[Main] = "add_signal"
    /\ Ok(Main)
    /\ pc' = [t \in Threads |->
                IF t = Main THEN "add_unlock"
                ELSE IF pc[t] = "waiting" THEN "woken" ELSE pc[t]]
    /\ UNCHANGED <<lock, shared, owner, jobvars, hist, conc, exited>>

\* pthread_cond_signal(&jq->wakeWorker): one blocked worker, if any, is
\* unblocked and goes on to re-acquire the mutex.
AddJob_Signal ==
    /\ Running /\ pc[Main] = "add_signal"
    /\ Ok(Main)
    /\ IF Waiters = {}
       THEN Goto(Main, "add_unlock")
       ELSE \E w \in Waiters :
              pc' = [pc EXCEPT ![Main] = "add_unlock", ![w] = "woken"]
    /\ UNCHANGED <<lock, shared, owner, jobvars, exited>>
    /\ UNCHANGED <<hist, conc>>

\* pthread_mutex_unlock(&jq->lock) and return.
AddJob_Unlock ==
    /\ Running /\ pc[Main] = "add_unlock"
    /\ lock' = lock \ {Main}
    /\ Ok(Main)
    /\ newJob' = 0
    /\ Goto(Main, "idle")
    /\ UNCHANGED <<shared, nthreads, jqState, threadArr, created, nSubmitted,
                   early, waitCalls, waitReturns, allocFailed, jobvars,
                   exited>>
    /\ UNCHANGED <<hist, conc>>

\* The positions of the owner at which the queue exists and is not being
\* freed, so that another thread may call JobQueue_addJob on it.
UsablePcs == {"idle", "add_lock", "add_link", "add_signal", "add_unlock",
              "wait_lock", "wait_set", "wait_test", "wait_bcast", "wait_wait",
              "wait_blocked", "wait_woken", "wait_unlock"}

\* A call of JobQueue_waitOnJobs that has not returned.
WaitPending == waitCalls > waitReturns

\* JobQueue_addJob called by Sub: job = malloc(sizeof(Job)); checkmem(job).
Sub_Malloc ==
    /\ Running /\ pc[Sub] = "none"
    /\ jqState = "live" /\ pc[Main] \in UsablePcs
    /\ nSubmitted < MaxJobs
    /\ \E isNull \in BOOLEAN :
         /\ exited' = checkmem(isNull)
         /\ IF isNull
            THEN /\ allocFailed' = "job"
                 /\ UNCHANGED <<pc, subJob, nSubmitted, early>>
            ELSE /\ subJob' = nSubmitted + 1
                 /\ nSubmitted' = nSubmitted + 1
                 /\ early' = IF waitCalls = 0 THEN early + 1 ELSE early
                 /\ Goto(Sub, "add_lock")
                 /\ UNCHANGED allocFailed
    /\ UNCHANGED <<lock, shared, nthreads, jqState, threadArr, created, newJob,
                   status, jobvars, waitCalls, waitReturns, hist, late, during>>

\* pthread_mutex_lock(&jq->lock), by Sub.
Sub_Lock ==
    /\ Running /\ pc[Sub] = "add_lock"
    /\ lock = {}
    /\ lock' = {Sub}
    /\ Ok(Sub)
    /\ Goto(Sub, "add_link")
    /\ UNCHANGED <<shared, owner, jobvars, hist, conc, exited>>

\* job->next = jq->todo; jq->todo = job, by Sub.
Sub_Link ==
    /\ Running /\ pc[Sub] = "add_link"
    /\ todo' = Link(subJob, todo)
    /\ late' = IF threadsStopped = nthreads THEN late \cup {subJob} ELSE late
    /\ during' = IF WaitPending THEN during \cup {subJob} ELSE during
    /\ Goto(Sub, "add_signal")
    /\ UNCHANGED <<lock, acceptingJobs, threadsStopped, owner, jobvars, hist,
                   subJob, status, exited>>

\* pthread_cond_signal(&jq->wakeWorker), by Sub.
Sub_Signal ==
    /\ Running /\ pc[Sub] = "add_signal"
    /\ Ok(Sub)
    /\ IF Waiters = {}
       THEN Goto(Sub, "add_unlock")
       ELSE \E w \in Waiters :
              pc' = [pc EXCEPT ![Sub] = "add_unlock", ![w] = "woken"]
    /\ UNCHANGED <<lock, shared, owner, jobvars, hist, conc, exited>>

\* pthread_mutex_unlock(&jq->lock) and return, by Sub.
Sub_Unlock ==
    /\ Running /\ pc[Sub] = "add_unlock"
    /\ lock' = lock \ {Sub}
    /\ Ok(Sub)
    /\ subJob' = 0
    /\ Goto(Sub, "none")
    /\ UNCHANGED <<shared, owner, jobvars, hist, late, during, exited>>

(***************************************************************************)
(* threadfun                                                               *)
(***************************************************************************)

\* pthread_mutex_lock(&jq->lock) at the top of the for(;;) loop.
W_Lock(w) ==
    /\ Running /\ pc[w] = "lock"
    /\ lock = {}
    /\ lock' = {w}
    /\ Ok(w)
    /\ Goto(w, "test")
    /\ UNCHANGED <<shared, owner, jobvars, exited>>
    /\ UNCHANGED <<hist, conc>>

\* Mutant: the loop tests acceptingJobs the wrong way round.
MustWait_Inverted == todo = << >> /\ acceptingJobs = 0

\* Mutant: the worker never waits for work.
MustWait_Never == FALSE

\* Mutant: the worker waits without looking at the list.
MustWait_IgnoresList == acceptingJobs = 1

\* while(NULL == jq->todo && 1 == jq->acceptingJobs)
MustWait == todo = << >> /\ acceptingJobs = 1

W_Test(w) ==
    /\ Running /\ pc[w] = "test"
    /\ Goto(w, IF MustWait THEN "wait" ELSE "check")
    /\ UNCHANGED <<lock, shared, owner, jobvars, status, exited>>
    /\ woke' = woke \ {w}
    /\ UNCHANGED <<sigMain, conc>>

\* pthread_cond_wait(&jq->wakeWorker, &jq->lock): release the mutex and block.
W_Wait(w) ==
    /\ Running /\ pc[w] = "wait"
    /\ lock' = lock \ {w}
    /\ Goto(w, "waiting")
    /\ UNCHANGED <<shared, owner, jobvars, status, exited>>
    /\ UNCHANGED <<hist, conc>>

\* Mutant: the wait is guarded by an if, not a while: the woken worker does
\* not test the predicate again.
W_Wake_NoRetest(w) ==
    /\ Running /\ pc[w] = "woken"
    /\ lock = {}
    /\ lock' = {w}
    /\ Ok(w)
    /\ Goto(w, "check")
    /\ UNCHANGED <<shared, owner, jobvars, hist, conc, exited>>

\* Mutant: the woken worker goes on without re-acquiring the mutex.
W_Wake_NoRelock(w) ==
    /\ Running /\ pc[w] = "woken"
    /\ Ok(w)
    /\ Goto(w, "test")
    /\ woke' = woke \cup {w}
    /\ UNCHANGED <<lock, shared, owner, jobvars, sigMain, conc, exited>>

\* pthread_cond_wait returns: the unblocked worker re-acquires the mutex.
W_Wake(w) ==
    /\ Running /\ pc[w] = "woken"
    /\ lock = {}
    /\ lock' = {w}
    /\ Ok(w)
    /\ Goto(w, "test")
    /\ UNCHANGED <<shared, owner, jobvars, exited>>
    /\ woke' = woke \cup {w}
    /\ UNCHANGED <<sigMain, conc>>

\* Mutant: a worker leaves its loop as soon as the queue stops accepting jobs.
LeavesLoop_OnStop == acceptingJobs = 0

\* if(NULL == jq->todo) { assert(0 == jq->acceptingJobs); break; }
LeavesLoop == todo = << >>

\* Mutant: the head is taken but jq->todo is not advanced.
Unlink_KeepHead(list) == <<Head(list), list>>

\* job = jq->todo; jq->todo = jq->todo->next: the job taken and the list left.
Unlink(list) == <<Head(list), Tail(list)>>

W_Check(w) ==
    /\ Running /\ pc[w] = "check"
    /\ IF LeavesLoop
       THEN /\ IF acceptingJobs = 0
               THEN Goto(w, "incr") /\ UNCHANGED exited
               ELSE exited' = "assert" /\ UNCHANGED pc
            /\ UNCHANGED <<todo, job, dequeued>>
       ELSE /\ job' = [job EXCEPT ![w] = Unlink(todo)[1]]
            /\ todo' = Unlink(todo)[2]
            /\ dequeued' = [dequeued EXCEPT ![Unlink(todo)[1]] = @ + 1]
            /\ Goto(w, "unlock1")
            /\ UNCHANGED exited
    /\ UNCHANGED <<lock, acceptingJobs, threadsStopped, owner, invoked,
                   finished, jobFreed, status>>
    /\ UNCHANGED <<hist, conc>>

\* Mutant: the worker keeps the mutex while it runs the job.
W_Unlock1_Keeps(w) ==
    /\ Running /\ pc[w] = "unlock1"
    /\ Ok(w)
    /\ Goto(w, "call")
    /\ UNCHANGED <<lock, shared, owner, jobvars, hist, conc, exited>>

\* pthread_mutex_unlock(&jq->lock) before the job is run.
W_Unlock1(w) ==
    /\ Running /\ pc[w] = "unlock1"
    /\ lock' = lock \ {w}
    /\ Ok(w)
    /\ Goto(w, "call")
    /\ UNCHANGED <<shared, owner, jobvars, exited>>
    /\ UNCHANGED <<hist, conc>>

\* job->jobfun(job->param) is entered.
W_Call(w) ==
    /\ Running /\ pc[w] = "call"
    /\ invoked' = [invoked EXCEPT ![job[w]] = @ + 1]
    /\ Goto(w, "running")
    /\ UNCHANGED <<lock, shared, owner, job, dequeued, finished, jobFreed,
                   status, exited>>
    /\ UNCHANGED <<hist, conc>>

\* jobfun returns; free(job).  The local pointer is dead from here on and is
\* recorded as 0 until the next assignment.
W_Return(w) ==
    /\ Running /\ pc[w] = "running"
    /\ finished' = [finished EXCEPT ![job[w]] = @ + 1]
    /\ jobFreed' = jobFreed \cup {job[w]}
    /\ job' = [job EXCEPT ![w] = 0]
    /\ Goto(w, "lock")
    /\ UNCHANGED <<lock, shared, owner, dequeued, invoked, status, exited>>
    /\ UNCHANGED <<hist, conc>>

\* Mutant: the worker gives up the mutex before it counts itself stopped.
W_Incr_Unlocked(w) ==
    /\ Running /\ pc[w] = "incr"
    /\ threadsStopped' = threadsStopped + 1
    /\ lock' = lock \ {w}
    /\ Goto(w, "iflast")
    /\ UNCHANGED <<todo, acceptingJobs, owner, jobvars, status, exited>>
    /\ UNCHANGED <<hist, conc>>

\* ++jq->threadsStopped
W_Incr(w) ==
    /\ Running /\ pc[w] = "incr"
    /\ threadsStopped' = threadsStopped + 1
    /\ Goto(w, "iflast")
    /\ UNCHANGED <<lock, todo, acceptingJobs, owner, jobvars, status, exited>>
    /\ UNCHANGED <<hist, conc>>

\* Mutant: every parking worker signals wakeMain.
W_IfLast_Always(w) ==
    /\ Running /\ pc[w] = "iflast"
    /\ Goto(w, "sigmain")
    /\ UNCHANGED <<lock, shared, owner, jobvars, hist, conc, status, exited>>

\* if(jq->threadsStopped == jq->nthreads)
W_IfLast(w) ==
    /\ Running /\ pc[w] = "iflast"
    /\ Goto(w, IF threadsStopped = nthreads THEN "sigmain" ELSE "unlock2")
    /\ UNCHANGED <<lock, shared, owner, jobvars, status, exited>>
    /\ UNCHANGED <<hist, conc>>

\* pthread_cond_signal(&jq->wakeMain): the owner, if blocked, is unblocked.
W_SignalMain(w) ==
    /\ Running /\ pc[w] = "sigmain"
    /\ Ok(w)
    /\ pc' = [pc EXCEPT ![w] = "unlock2",
                        ![Main] = IF @ = "wait_blocked" THEN "wait_woken" ELSE @]
    /\ UNCHANGED <<lock, shared, owner, jobvars, exited>>
    /\ sigMain' = sigMain + 1
    /\ UNCHANGED <<woke, conc>>

\* The final pthread_mutex_unlock(&jq->lock); return NULL.
W_Unlock2(w) ==
    /\ Running /\ pc[w] = "unlock2"
    /\ lock' = lock \ {w}
    /\ Ok(w)
    /\ Goto(w, "done")
    /\ UNCHANGED <<shared, owner, jobvars, exited>>
    /\ UNCHANGED <<hist, conc>>

threadfun(w) ==
    \/ W_Lock(w) \/ W_Test(w) \/ W_Wait(w) \/ W_Wake(w) \/ W_Check(w)
    \/ W_Unlock1(w) \/ W_Call(w) \/ W_Return(w) \/ W_Incr(w) \/ W_IfLast(w)
    \/ W_SignalMain(w) \/ W_Unlock2(w)

(***************************************************************************)
(* JobQueue_waitOnJobs                                                     *)
(***************************************************************************)

\* The owner calls JobQueue_waitOnJobs(jq).
Wait_Call ==
    /\ Running /\ pc[Main] = "idle" /\ jqState = "live"
    /\ waitCalls < MaxWaits
    /\ waitCalls' = waitCalls + 1
    /\ Goto(Main, "wait_lock")
    /\ UNCHANGED <<lock, shared, nthreads, jqState, threadArr, created, newJob,
                   nSubmitted, early, waitReturns, allocFailed, jobvars,
                   status, exited>>
    /\ UNCHANGED <<hist, conc>>

Wait_Lock ==
    /\ Running /\ pc[Main] = "wait_lock"
    /\ lock = {}
    /\ lock' = {Main}
    /\ Ok(Main)
    /\ Goto(Main, "wait_set")
    /\ UNCHANGED <<shared, owner, jobvars, exited>>
    /\ UNCHANGED <<hist, conc>>

\* Mutant: the drain also starts the count of stopped workers afresh.
Wait_Set_ResetsCount ==
    /\ Running /\ pc[Main] = "wait_set"
    /\ acceptingJobs' = 0
    /\ threadsStopped' = 0
    /\ Goto(Main, "wait_test")
    /\ UNCHANGED <<lock, todo, owner, jobvars, hist, conc, status, exited>>

\* jq->acceptingJobs = 0
Wait_Set ==
    /\ Running /\ pc[Main] = "wait_set"
    /\ acceptingJobs' = 0
    /\ Goto(Main, "wait_test")
    /\ UNCHANGED <<lock, todo, threadsStopped, owner, jobvars, status, exited>>
    /\ UNCHANGED <<hist, conc>>

\* Mutant: the loop test admits equality.
StillRunning_AtMost == threadsStopped <= nthreads

\* Mutant: the owner also waits for the list to be empty.
StillRunning_OrPending == threadsStopped < nthreads \/ todo # << >>

\* Mutant: the owner never waits for the workers.
StillRunning_Never == FALSE

\* Mutant: the loop test is off by one and lets the last worker go unwaited.
StillRunning_OffByOne == threadsStopped + 1 < nthreads

\* Mutant: the owner stops waiting as soon as one worker has parked.
StillRunning_AnyParked == threadsStopped = 0 /\ 0 < nthreads

\* while(jq->threadsStopped < jq->nthreads)
StillRunning == threadsStopped < nthreads

Wait_Test ==
    /\ Running /\ pc[Main] = "wait_test"
    /\ Goto(Main, IF StillRunning THEN "wait_bcast" ELSE "wait_unlock")
    /\ UNCHANGED <<lock, shared, owner, jobvars, status, exited>>
    /\ UNCHANGED <<hist, conc>>

\* Mutant: the owner signals wakeWorker instead of broadcasting, so one
\* blocked worker at most is unblocked.
Wait_SignalOne ==
    /\ Running /\ pc[Main] = "wait_bcast"
    /\ Ok(Main)
    /\ IF Waiters = {}
       THEN Goto(Main, "wait_wait")
       ELSE \E w \in Waiters :
              pc' = [pc EXCEPT ![Main] = "wait_wait", ![w] = "woken"]
    /\ UNCHANGED <<lock, shared, owner, jobvars, exited>>
    /\ UNCHANGED <<hist, conc>>

\* pthread_cond_broadcast(&jq->wakeWorker): every blocked worker is unblocked.
Wait_Broadcast ==
    /\ Running /\ pc[Main] = "wait_bcast"
    /\ Ok(Main)
    /\ pc' = [t \in Threads |->
                IF t = Main THEN "wait_wait"
                ELSE IF t \in Waiters THEN "woken" ELSE pc[t]]
    /\ UNCHANGED <<lock, shared, owner, jobvars, exited>>
    /\ UNCHANGED <<hist, conc>>

\* pthread_cond_wait(&jq->wakeMain, &jq->lock): release the mutex and block.
Wait_Wait ==
    /\ Running /\ pc[Main] = "wait_wait"
    /\ lock' = lock \ {Main}
    /\ Goto(Main, "wait_blocked")
    /\ UNCHANGED <<shared, owner, jobvars, status, exited>>
    /\ woke' = woke \ {Main}
    /\ UNCHANGED <<sigMain, conc>>

\* Mutant: the wait is guarded by an if, not a while: a woken owner returns.
Wait_Wake_NoRetest ==
    /\ Running /\ pc[Main] = "wait_woken"
    /\ lock = {}
    /\ lock' = {Main}
    /\ Ok(Main)
    /\ Goto(Main, "wait_unlock")
    /\ UNCHANGED <<shared, owner, jobvars, hist, conc, exited>>

\* pthread_cond_wait returns: the owner re-acquires the mutex.
Wait_Wake ==
    /\ Running /\ pc[Main] = "wait_woken"
    /\ lock = {}
    /\ lock' = {Main}
    /\ Ok(Main)
    /\ Goto(Main, "wait_test")
    /\ UNCHANGED <<shared, owner, jobvars, exited>>
    /\ woke' = woke \cup {Main}
    /\ UNCHANGED <<sigMain, conc>>

\* Mutant: the queue is opened again when the drain returns.
Wait_Unlock_Reopens ==
    /\ Running /\ pc[Main] = "wait_unlock"
    /\ lock' = lock \ {Main}
    /\ Ok(Main)
    /\ acceptingJobs' = 1
    /\ waitReturns' = waitReturns + 1
    /\ Goto(Main, "idle")
    /\ woke' = woke \ {Main}
    /\ UNCHANGED <<todo, threadsStopped, nthreads, jqState, threadArr, created,
                   newJob, nSubmitted, early, waitCalls, allocFailed, jobvars,
                   sigMain, conc, exited>>

\* pthread_mutex_unlock(&jq->lock) and return.
Wait_Unlock ==
    /\ Running /\ pc[Main] = "wait_unlock"
    /\ lock' = lock \ {Main}
    /\ Ok(Main)
    /\ waitReturns' = waitReturns + 1
    /\ Goto(Main, "idle")
    /\ UNCHANGED <<shared, nthreads, jqState, threadArr, created, newJob,
                   nSubmitted, early, waitCalls, allocFailed, jobvars, exited>>
    /\ woke' = woke \ {Main}
    /\ UNCHANGED <<sigMain, conc>>

(***************************************************************************)
(* JobQueue_free                                                           *)
(***************************************************************************)

RECURSIVE Job_free(_)

\* Mutant: Job_free does not recurse into job->next.
Job_free_HeadOnly(list) == IF list = << >> THEN {} ELSE {Head(list)}

\* void Job_free(Job * job): the jobs freed, the whole list by recursion.
Job_free(list) ==
    IF list = << >> THEN {} ELSE Job_free(Tail(list)) \cup {Head(list)}

\* The owner calls JobQueue_free(jq) once JobQueue_waitOnJobs has returned
\* and no other thread is inside a call on the queue.
Free_Call ==
    /\ Running /\ pc[Main] = "idle" /\ jqState = "live"
    /\ waitReturns > 0
    /\ pc[Sub] = "none"
    /\ Goto(Main, "free_lock")
    /\ UNCHANGED <<lock, shared, owner, jobvars, status, exited>>
    /\ UNCHANGED <<hist, conc>>

\* pthread_mutex_destroy and the two pthread_cond_destroy calls, when they
\* succeed.
Free_Destroy ==
    /\ Running /\ pc[Main] \in {"free_lock", "free_cond1", "free_cond2"}
    /\ Ok(Main)
    /\ Goto(Main, CASE pc[Main] = "free_lock" -> "free_cond1"
                    [] pc[Main] = "free_cond1" -> "free_cond2"
                    [] OTHER -> "free_mem")
    /\ UNCHANGED <<lock, shared, owner, jobvars, exited>>
    /\ UNCHANGED <<hist, conc>>

\* Job_free(jq->todo); free(jq->thread); free(jq).
Free_Mem ==
    /\ Running /\ pc[Main] = "free_mem"
    /\ jobFreed' = jobFreed \cup Job_free(todo)
    /\ jqState' = "freed"
    /\ threadArr' = "unalloc"
    /\ Goto(Main, "end")
    /\ UNCHANGED <<lock, shared, nthreads, created, newJob, nSubmitted, early,
                   waitCalls, waitReturns, allocFailed, job, dequeued,
                   invoked, finished, status, exited>>
    /\ UNCHANGED <<hist, conc>>

(***************************************************************************)
(* The environment: failing pthread calls and spurious wakeups             *)
(***************************************************************************)

\* Thread t is about to call a pthread function whose status it tests.
AtSyncCall(t) ==
    IF t \in Workers
    THEN pc[t] \in WorkerSyncPcs
    ELSE pc[t] \in MainSyncPcs /\ (pc[t] = "new_create" => created < nthreads)

\* eprintf in JobQueue_new, the ERR macro everywhere else.
ErrorExit(t) == IF pc[t] \in {"new_mutex", "new_cond1", "new_cond2",
                              "new_create"}
                THEN "eprintf" ELSE "ERR"

\* The call returns a nonzero status: status = ...; if(status) ERR(...).
SyncFail(t) ==
    /\ Running /\ AtSyncCall(t)
    /\ status' = [status EXCEPT ![t] = 1]
    /\ exited' = IF StatusFatal(status'[t]) THEN ErrorExit(t) ELSE exited
    /\ UNCHANGED <<pc, lock, shared, owner, jobvars>>
    /\ UNCHANGED <<hist, conc>>

\* A thread blocked in pthread_cond_wait is unblocked without a signal.
Spurious(t) ==
    /\ Running
    /\ \/ t \in Workers /\ pc[t] = "waiting" /\ Goto(t, "woken")
       \/ t = Main /\ pc[t] = "wait_blocked" /\ Goto(t, "wait_woken")
    /\ UNCHANGED <<lock, shared, owner, jobvars, status, exited>>
    /\ UNCHANGED <<hist, conc>>

JobQueue_new ==
    \/ New_Malloc \/ New_Init \/ New_ThreadMalloc \/ New_Create
    \/ New_CreateFault \/ New_Return

JobQueue_addJob ==
    \/ AddJob_Malloc \/ AddJob_Lock \/ AddJob_Link \/ AddJob_Signal
    \/ AddJob_Unlock

JobQueue_waitOnJobs ==
    \/ Wait_Call \/ Wait_Lock \/ Wait_Set \/ Wait_Test \/ Wait_Broadcast
    \/ Wait_Wait \/ Wait_Wake \/ Wait_Unlock

JobQueue_free == Free_Call \/ Free_Destroy \/ Free_Mem

Next ==
    \/ JobQueue_new
    \/ JobQueue_addJob
    \/ JobQueue_waitOnJobs
    \/ JobQueue_free
    \/ \E w \in Workers : threadfun(w)
    \/ \E t \in Threads : SyncFail(t)
    \/ \E t \in Threads : Spurious(t)

Spec == Init /\ [][Next]_vars

\* Fair scheduling: a thread inside a call keeps taking steps, a thread that
\* is repeatedly able to acquire the mutex acquires it, and a job function
\* that was entered returns.  No fairness is asked of spurious wakeups, of
\* failing pthread calls, or of the owner's decision to make another call.
MainProgress ==
    /\ pc[Main] # "idle"
    /\ JobQueue_new \/ JobQueue_addJob \/ JobQueue_waitOnJobs \/ JobQueue_free

FairSpec ==
    /\ Spec
    /\ SF_vars(MainProgress)
    /\ \A w \in Workers : SF_vars(threadfun(w))

\* JobQueue_addJob as called by the second submitter.
Sub_addJob == Sub_Malloc \/ Sub_Lock \/ Sub_Link \/ Sub_Signal \/ Sub_Unlock

\* The program with a second thread that submits jobs.
NextConc == Next \/ Sub_addJob

ConcSpec == Init /\ [][NextConc]_vars

(***************************************************************************)
(* Properties                                                              *)
(***************************************************************************)

\* The workers JobQueue_new was asked to launch.
Pool == {w \in Workers : w < nthreads}

\* The jobs submitted before JobQueue_waitOnJobs was first called.
EarlyJobs == 1 .. early

\* C1: for every worker count N >= 1, once JobQueue_waitOnJobs has returned,
\* every job submitted before it was called has been invoked exactly once and
\* has returned; no job is ever invoked twice.
C1_EveryJobRunOnce ==
    /\ \A j \in Jobs : invoked[j] <= 1 /\ finished[j] <= invoked[j]
    /\ (nthreads >= 1 /\ waitReturns >= 1) =>
           \A j \in EarlyJobs : invoked[j] = 1 /\ finished[j] = 1

\* C1 witness: a drain of two workers has returned with several jobs run.
C1_Witness ==
    /\ nthreads >= 2 /\ waitReturns = 1 /\ early >= 2
    /\ \A j \in EarlyJobs : finished[j] = 1

\* C2: under fair scheduling, with job functions that return, every call of
\* JobQueue_waitOnJobs returns, for every worker count and any number of jobs
\* (unless a failing pthread call ends the process first).
C2_WaitReturns == WaitPending ~> (~WaitPending \/ exited = "ERR")

\* C2 witness: a drain with workers and no job at all has returned.
C2_Witness ==
    /\ nthreads >= 1 /\ waitReturns = 1 /\ nSubmitted = 0
    /\ pc[Main] = "idle"

\* The positions of a worker that is awaiting work or handling a job.
BusyPcs == {"lock", "test", "wait", "waiting", "woken", "check", "unlock1",
            "call", "running"}

\* C3: JobQueue_waitOnJobs leaves its loop and returns only with
\* threadsStopped = nthreads, every worker having left its loop with an empty
\* list and acceptingJobs = 0; none is then awaiting work or running a job.
C3_ReturnsWhenAllParked ==
    (pc[Main] = "wait_unlock" \/ waitReturns >= 1) =>
        /\ threadsStopped = nthreads
        /\ acceptingJobs = 0
        /\ \A w \in Pool : pc[w] \notin BusyPcs /\ job[w] = 0

\* C3 witness: the owner has left the wait loop of a pool of two workers.
C3_Witness ==
    /\ pc[Main] = "wait_unlock" /\ nthreads >= 2 /\ waitReturns = 0
    /\ threadsStopped = nthreads

\* The jobs in the pending list.
Pending == {todo[i] : i \in DOMAIN todo}

\* C4: every job is unlinked from the list at most once, no two workers hold
\* the same job, and a job held by a worker is no longer in the list.
C4_DequeuedOnce ==
    /\ \A j \in Jobs : dequeued[j] <= 1
    /\ \A w \in Workers : job[w] # 0 =>
          /\ dequeued[job[w]] = 1
          /\ job[w] \notin Pending
          /\ \A v \in Workers \ {w} : job[v] # job[w]

\* C4 witness: two workers hold (different) jobs at the same time.
C4_Witness ==
    /\ nthreads >= 2
    /\ Cardinality({w \in Workers : job[w] # 0}) >= 2

\* The most recently submitted of the pending jobs (jobs are numbered in the
\* order of their submission).
Newest == CHOOSE j \in Pending : \A k \in Pending : k <= j

\* C5: the list is last-in-first-out: every dequeue takes the most recently
\* submitted of the pending jobs, so of two jobs submitted with no dequeue in
\* between the later one is dispatched first.
C5_Lifo ==
    [][\A w \in Workers :
          (pc[w] = "check" /\ pc'[w] = "unlock1") => job'[w] = Newest]_vars

\* C5 witness: a worker has just taken a job while an older one is pending.
C5_Witness ==
    \E w \in Workers :
        /\ pc[w] = "unlock1" /\ todo # << >>
        /\ \A k \in Pending : k < job[w]

\* The positions of a worker that has left its loop but not yet returned.
ParkingPcs == {"incr", "iflast", "sigmain", "unlock2"}

\* C6: a worker leaves its loop only with an empty list and acceptingJobs = 0
\* (both still so while it parks, as it holds the mutex), and every job
\* submitted before the drain has then been unlinked by some worker.
C6_ExitsOnEmptyList ==
    \A w \in Workers : pc[w] \in ParkingPcs =>
        /\ todo = << >>
        /\ acceptingJobs = 0
        /\ \A j \in EarlyJobs : dequeued[j] = 1

\* C6 witness: a worker parks after jobs were queued and drained.
C6_Witness ==
    \E w \in Workers : pc[w] = "incr" /\ early >= 2 /\ nthreads >= 2

\* C7: JobQueue_addJob waits for nothing but the mutex: when the mutex is
\* free its lock step can be taken, and each later step of the call can be
\* taken, whatever the workers are doing.
C7_SubmitNeverBlocks ==
    /\ (Running /\ pc[Main] = "add_lock" /\ lock = {}) => ENABLED AddJob_Lock
    /\ (Running /\ pc[Main] = "add_link") => ENABLED AddJob_Link
    /\ (Running /\ pc[Main] = "add_signal") => ENABLED AddJob_Signal
    /\ (Running /\ pc[Main] = "add_unlock") => ENABLED AddJob_Unlock

\* C7 witness: the owner is about to lock for a submission while every worker
\* of a pool of two is running a job.
C7_Witness ==
    /\ Running /\ pc[Main] = "add_lock" /\ lock = {}
    /\ nthreads >= 2 /\ \A w \in Pool : pc[w] = "running"

\* C8: once JobQueue_waitOnJobs has returned, every worker has made its final
\* unlock and takes no further step, so JobQueue_free destroys a mutex that no
\* worker holds or will acquire.
C8_NoWorkerAfterWait ==
    /\ waitReturns >= 1 => \A w \in Pool : pc[w] = "done" /\ w \notin lock
    /\ pc[Main] \in {"free_lock", "free_cond1", "free_cond2", "free_mem", "end"}
          => lock = {}

\* C8 witness: the queue of a pool of two workers has been freed.
C8_Witness ==
    /\ jqState = "freed" /\ nthreads >= 2 /\ nSubmitted >= 1

\* C9: every allocation failure ends the process through checkmem, before
\* any further step of the pool.
C9_AllocFailureFatal == allocFailed # "none" => exited = "die"

\* C10: a nonzero status of a pthread call ends the process at once: the
\* thread that received it takes no further step and the queue is left as it
\* was.
C10_SyncFailureFatal ==
    \A t \in Threads : status[t] # 0 => exited \in {"ERR", "eprintf"}

\* C10 witness: a worker's pthread_cond_wait failed and the process ended.
C10_Witness ==
    \E w \in Workers : pc[w] = "wait" /\ status[w] # 0 /\ exited = "ERR"

\* The positions at which a thread's next statement reads or writes jq->todo,
\* jq->acceptingJobs or jq->threadsStopped, in JobQueue_addJob,
\* JobQueue_waitOnJobs and threadfun.
AccessPcs == {"add_link", "wait_set", "wait_test",
              "test", "check", "incr", "iflast"}

\* C11: at most one thread holds the mutex, and a thread of JobQueue_addJob,
\* JobQueue_waitOnJobs or threadfun that is about to read or write the list,
\* acceptingJobs or threadsStopped holds it.
C11_SharedUnderMutex ==
    /\ Cardinality(lock) <= 1
    /\ \A t \in Threads : pc[t] \in AccessPcs => t \in lock

\* C11 witness: a worker unlinks under the mutex while the owner, in
\* JobQueue_addJob, and the other worker wait for it.
C11_Witness ==
    \E w \in Workers :
        /\ pc[w] = "check" /\ lock = {w} /\ todo # << >>
        /\ pc[Main] = "add_lock"
        /\ \E v \in Workers \ {w} : pc[v] \in {"lock", "woken"}

\* C12: a worker does not hold the mutex while it runs a job function; the
\* job was unlinked before, so the mutex is free for JobQueue_addJob and for
\* another worker's dequeue however long the job runs.
C12_JobRunsUnlocked ==
    \A w \in Workers :
        /\ pc[w] \in {"call", "running"} =>
              w \notin lock /\ job[w] # 0 /\ job[w] \notin Pending
        /\ (Running /\ pc[w] = "running" /\ lock = {}) =>
              /\ pc[Main] = "add_lock" => ENABLED AddJob_Lock
              /\ \A v \in Workers \ {w} : pc[v] = "lock" => ENABLED W_Lock(v)

\* C12 witness: while one worker runs a job, another worker holds the mutex
\* and unlinks the next one.
C12_Witness ==
    \E w \in Workers : \E v \in Workers \ {w} :
        pc[w] = "running" /\ pc[v] = "check" /\ lock = {v} /\ todo # << >>

\* The jobs JobQueue_addJob has linked into the list so far.
Linked ==
    {j \in 1 .. nSubmitted :
        j # newJob \/ pc[Main] \in {"add_signal", "add_unlock"}}

\* The jobs held in a worker's local variable, and the jobs completed.
Held == {job[w] : w \in {v \in Workers : job[v] # 0}}
Completed == {j \in Jobs : finished[j] = 1}

\* C13: while the queue lives, every submitted job that has not finished is
\* in exactly one place: once in the list, or in one worker's local variable;
\* jobs in the list, jobs being handled and jobs completed add up to the jobs
\* submitted.
C13_OnePlace ==
    jqState = "live" =>
        /\ Cardinality(Pending) = Len(todo)
        /\ Pending \cap Held = {}
        /\ Pending \cap Completed = {}
        /\ Held \cap Completed = {}
        /\ Cardinality(Held) = Cardinality({w \in Workers : job[w] # 0})
        /\ Pending \cup Held \cup Completed = Linked
        /\ Len(todo) + Cardinality(Held) + Cardinality(Completed)
              = Cardinality(Linked)

\* C13 witness: one job is pending, one is being run and one has completed.
C13_Witness ==
    /\ jqState = "live" /\ Len(todo) >= 1
    /\ Held # {} /\ Completed # {}

\* The workers that have counted themselves stopped.
Parked == {w \in Pool : pc[w] \in {"iflast", "sigmain", "unlock2", "done"}}

\* C14: threadsStopped stays within 0 .. nthreads and counts the workers that
\* have parked, each once; it changes only by the +1 of a parking worker and
\* is never decreased or reset.
C14_StoppedMonotone ==
    /\ [](/\ 0 <= threadsStopped /\ threadsStopped <= nthreads
          /\ threadsStopped = Cardinality(Parked))
    /\ [][\/ threadsStopped' = threadsStopped
          \/ /\ threadsStopped' = threadsStopped + 1
             /\ \E w \in Workers : pc[w] = "incr" /\ pc'[w] = "iflast"]_vars

\* C14 witness: both workers of a pool of two have parked and the owner is
\* in a later call of JobQueue_waitOnJobs.
C14_Witness ==
    /\ nthreads >= 2 /\ threadsStopped = nthreads
    /\ waitCalls >= 2 /\ pc[Main] = "wait_test"

\* C15: acceptingJobs is 1 when JobQueue_new has set up the queue, is changed
\* only by the assignment in JobQueue_waitOnJobs, and once 0 stays 0 under
\* every operation.
C15_OneShotShutdown ==
    [][/\ (jqState = "unalloc" /\ jqState' = "live") => acceptingJobs' = 1
       /\ (jqState # "unalloc" /\ acceptingJobs = 0) => acceptingJobs' = 0
       /\ (jqState # "unalloc" /\ acceptingJobs' # acceptingJobs) =>
             pc[Main] = "wait_set" /\ pc'[Main] = "wait_test"]_vars

\* C15 witness: a job is submitted after the drain has returned, and
\* acceptingJobs is still 0.
C15_Witness ==
    /\ acceptingJobs = 0 /\ waitReturns >= 1 /\ pc[Main] = "add_unlock"
    /\ nthreads >= 1

\* C16: wakeMain is signalled by a worker only while it holds the mutex and
\* only when its own increment has made threadsStopped equal to nthreads: a
\* worker that parks earlier does not signal, the last one does, and the
\* signal is issued once (with no worker at all, nthreads = 0, nobody parks
\* and nobody signals).
C16_LastWorkerSignals ==
    /\ sigMain <= 1
    /\ sigMain = 1 => threadsStopped = nthreads
    /\ \A w \in Workers :
          /\ pc[w] = "sigmain" =>
                w \in lock /\ threadsStopped = nthreads /\ sigMain = 0
          /\ (pc[w] \in {"unlock2", "done"} /\ threadsStopped < nthreads) =>
                sigMain = 0
    /\ (nthreads >= 1 /\ \A w \in Pool : pc[w] \in {"unlock2", "done"}) =>
          sigMain = 1
    /\ (nthreads >= 1 /\ waitReturns >= 1) => sigMain = 1

\* C16 witness: one worker of two has parked without signalling and the
\* other, the last, is about to signal.
C16_Witness ==
    \E w \in Workers : \E v \in Workers \ {w} :
        /\ pc[w] = "done" /\ pc[v] = "sigmain" /\ sigMain = 0
        /\ pc[Main] = "wait_blocked"

\* C17: a worker re-tests its predicate after every return from the wait on
\* wakeWorker: with the list empty and acceptingJobs = 1 it goes back to
\* waiting and changes nothing; it leaves the wait loop only when the list is
\* non-empty or acceptingJobs is 0.
C17_PredicateRetested ==
    /\ [](\A w \in Workers :
            /\ pc[w] = "check" => ~MustWait
            /\ pc[w] = "wait" => MustWait /\ w \in lock)
    /\ [][\A w \in Workers :
            /\ (pc[w] = "woken" /\ pc'[w] # "woken") =>
                  pc'[w] = "test" /\ UNCHANGED <<shared, jobvars>>
            /\ (pc[w] = "test" /\ pc'[w] # "test") =>
                  IF MustWait
                  THEN pc'[w] = "wait" /\ UNCHANGED <<shared, jobvars>>
                  ELSE pc'[w] = "check"
            /\ (pc[w] = "wait" /\ pc'[w] # "wait") =>
                  pc'[w] = "waiting" /\ UNCHANGED <<shared, jobvars>>]_vars

\* C17 witness: a worker woken from its wait re-tests and finds the list
\* empty and acceptingJobs = 1, the job having gone to the other worker.
C17_Witness ==
    \E w \in Workers : \E v \in Workers \ {w} :
        /\ w \in woke /\ pc[w] = "test" /\ MustWait
        /\ job[v] # 0

\* The owner's positions in JobQueue_waitOnJobs after jq->acceptingJobs = 0.
DrainPcs == {"wait_test", "wait_bcast", "wait_wait", "wait_blocked",
             "wait_woken", "wait_unlock"}

\* C18: JobQueue_waitOnJobs clears acceptingJobs under the mutex before its
\* first broadcast; whenever it finds threadsStopped < nthreads it broadcasts
\* wakeWorker (with acceptingJobs = 0, waking every blocked worker) and then
\* waits on wakeMain, releasing the mutex; after every wakeup it tests
\* threadsStopped < nthreads again, and it returns only when that is false.
C18_DrainLoop ==
    /\ [](/\ pc[Main] = "wait_set" => Main \in lock
          /\ pc[Main] \in DrainPcs => acceptingJobs = 0
          /\ pc[Main] \in {"wait_bcast", "wait_wait"} =>
                Main \in lock /\ StillRunning
          /\ pc[Main] = "wait_unlock" => Main \in lock /\ ~StillRunning)
    /\ [][/\ (pc[Main] = "wait_woken" /\ pc'[Main] # "wait_woken") =>
                pc'[Main] = "wait_test"
          /\ (pc[Main] = "wait_test" /\ pc'[Main] # "wait_test") =>
                pc'[Main] = IF StillRunning THEN "wait_bcast"
                                            ELSE "wait_unlock"
          /\ (pc[Main] = "wait_bcast" /\ pc'[Main] # "wait_bcast") =>
                /\ pc'[Main] = "wait_wait"
                /\ \A w \in Waiters : pc'[w] = "woken"
          /\ (pc[Main] = "wait_wait" /\ pc'[Main] # "wait_wait") =>
                pc'[Main] = "wait_blocked" /\ Main \notin lock']_vars

\* C18 witness: woken while a worker is still running, the owner has tested
\* again and is about to broadcast and wait once more.
C18_Witness ==
    /\ Main \in woke /\ pc[Main] = "wait_bcast"
    /\ \E w \in Workers : pc[w] = "running"

\* The owner's positions inside the critical section of JobQueue_addJob.
AddCritPcs == {"add_link", "add_signal", "add_unlock"}

\* C19: JobQueue_addJob links the job at the head, signals wakeWorker once and
\* unlocks, all under the mutex; the signal unblocks one blocked worker when
\* there is one (never all of them), and the job is in the list before any
\* unblocked worker can re-acquire the mutex.
C19_LinkSignalUnlock ==
    /\ [](/\ pc[Main] \in AddCritPcs => lock = {Main}
          /\ pc[Main] \in {"add_signal", "add_unlock"} =>
                todo # << >> /\ Head(todo) = newJob)
    /\ [][/\ (pc[Main] = "add_link" /\ pc'[Main] # "add_link") =>
                pc'[Main] = "add_signal" /\ todo' = <<newJob>> \o todo
          /\ (pc[Main] = "add_signal" /\ pc'[Main] # "add_signal") =>
                /\ pc'[Main] = "add_unlock"
                /\ UNCHANGED <<lock, todo>>
                /\ Cardinality({w \in Waiters : pc'[w] # "waiting"})
                      = IF Waiters = {} THEN 0 ELSE 1
                /\ \A w \in Waiters : pc'[w] \in {"waiting", "woken"}
          /\ (pc[Main] = "add_unlock" /\ pc'[Main] # "add_unlock") =>
                pc'[Main] = "idle" /\ lock' = {}
          /\ \A w \in Workers :
                (pc[w] = "woken" /\ pc'[w] # "woken") =>
                    pc[Main] \notin AddCritPcs]_vars

\* C19 witness: with both workers blocked, the signal has unblocked one and
\* left the other blocked; the owner still holds the mutex.
C19_Witness ==
    /\ pc[Main] = "add_unlock" /\ lock = {Main}
    /\ \E w \in Workers : \E v \in Workers \ {w} :
          pc[w] = "woken" /\ pc[v] = "waiting"

\* C20: with at least one worker and every submission made before the drain,
\* the list is empty when JobQueue_waitOnJobs returns, so Job_free(jq->todo)
\* in JobQueue_free finds nothing and every job ever freed had been executed.
C20_NoResidualJobs ==
    (nthreads >= 1 /\ nSubmitted = early) =>
        /\ pc[Main] = "wait_unlock" => todo = << >>
        /\ waitReturns >= 1 => todo = << >>
        /\ pc[Main] = "free_mem" => Job_free(todo) = {}
        /\ jqState = "freed" => \A j \in jobFreed : finished[j] = 1

\* C20 witness: a pool of two workers that ran several jobs, all submitted
\* before the drain, has been freed.
C20_Witness ==
    /\ jqState = "freed" /\ nthreads >= 2
    /\ nSubmitted = early /\ early >= 2
    /\ jobFreed = EarlyJobs

\* C21: for N >= 1, under fair scheduling and with job functions that return,
\* every job linked into the list while acceptingJobs is 1 is eventually
\* dequeued and invoked by some worker (unless a failing call ends the process
\* first), whether or not JobQueue_waitOnJobs is ever called and also when
\* the signal found every worker busy.
C21_NoLostWakeup ==
    \A j \in Jobs :
        (nthreads >= 1 /\ acceptingJobs = 1 /\ j \in Pending)
            ~> ((dequeued[j] = 1 /\ invoked[j] = 1) \/ ~Running)

\* C21 witness: the drain has not been called and the signal for a second job
\* has been issued while every worker is inside a job function.
C21_Witness ==
    /\ nthreads >= 1 /\ waitCalls = 0 /\ acceptingJobs = 1
    /\ pc[Main] = "add_unlock" /\ newJob \in Pending
    /\ Waiters = {}
    /\ \A w \in Pool : pc[w] = "running"

\* C22: no worker parks before the drain begins: while acceptingJobs is 1,
\* threadsStopped is 0 and every launched worker is awaiting work or handling
\* a job; one that has left the wait loop found the list non-empty.
C22_NoParkBeforeDrain ==
    acceptingJobs = 1 =>
        /\ threadsStopped = 0
        /\ Parked = {}
        /\ \A w \in Workers : w < created =>
              /\ pc[w] \in BusyPcs
              /\ pc[w] = "check" => todo # << >>

\* C22 witness: before the drain, one worker is blocked awaiting work and the
\* other is inside a job function.
C22_Witness ==
    /\ acceptingJobs = 1 /\ threadsStopped = 0 /\ waitCalls = 0
    /\ \E w \in Pool : \E v \in Pool \ {w} :
          pc[w] = "waiting" /\ pc[v] = "running"

\* C23: neither assertion of the worker loop fails in any interleaving: a
\* worker that leaves the wait loop with an empty list sees acceptingJobs = 0
\* (line 179), and one that goes on to dequeue has a non-empty list whose head
\* it takes (line 184), also when several workers were woken for one job.
C23_AssertionsHold ==
    /\ [](/\ exited # "assert"
          /\ \A w \in Workers :
                pc[w] = "check" => (w \in lock /\ (todo = << >> => acceptingJobs = 0)))
    /\ [][\A w \in Workers :
            /\ (pc[w] = "check" /\ pc'[w] = "incr") =>
                  todo = << >> /\ acceptingJobs = 0
            /\ (pc[w] = "check" /\ pc'[w] = "unlock1") =>
                  /\ todo # << >>
                  /\ job'[w] = Head(todo) /\ todo' = Tail(todo)]_vars

\* C23 witness: two workers were woken for a single job; one has taken it and
\* the other, back at the loop test, finds the list empty.
C23_Witness ==
    /\ nSubmitted = 1 /\ acceptingJobs = 1 /\ todo = << >>
    /\ \E w \in Pool : \E v \in Pool \ {w} :
          /\ pc[w] = "running" /\ job[w] # 0
          /\ pc[v] = "test" /\ v \in woke

\* Job j has run to completion, once.
Executed(j) == dequeued[j] = 1 /\ invoked[j] = 1 /\ finished[j] = 1

\* Job j was never taken by a worker: it is in the list while the queue
\* lives and was freed by JobQueue_free, unexecuted, once the queue is freed.
LeftInList(j) ==
    /\ dequeued[j] = 0 /\ invoked[j] = 0 /\ finished[j] = 0
    /\ jqState = "live" => j \in Pending /\ j \notin jobFreed
    /\ jqState = "freed" => j \in jobFreed

\* C24: a job linked when every worker has parked (threadsStopped = nthreads)
\* is never invoked: it stays in the list until JobQueue_free frees it
\* unexecuted.  A job linked while JobQueue_waitOnJobs is pending has, once
\* that call has returned, either been executed or been left in the list in
\* this way; it was executed if some worker had not yet parked.
C24_LateJobsNeverRun ==
    /\ \A j \in late : LeftInList(j)
    /\ waitReturns >= 1 =>
          /\ \A j \in during : Executed(j) \/ LeftInList(j)
          /\ \A j \in during \ late : Executed(j)

\* C24 witness: of two jobs linked by the second submitter during one drain of
\* a pool with workers, one was executed before the call returned and the
\* other, linked after the last worker parked, was freed unexecuted by
\* JobQueue_free.
C24_Witness ==
    /\ jqState = "freed" /\ nthreads >= 1 /\ waitCalls = 1
    /\ \E j \in during \ late : Executed(j)
    /\ \E k \in during \cap late : k \in jobFreed /\ invoked[k] = 0

\* A further call of JobQueue_waitOnJobs, made after one has returned.
SecondCall == waitReturns >= 1 /\ WaitPending

\* C25: a call of JobQueue_waitOnJobs made after an earlier one has returned
\* does not block and changes nothing: the mutex is free for it, it finds
\* threadsStopped = nthreads, makes no broadcast and no wait, and leaves the
\* list, acceptingJobs (0), threadsStopped and the workers as they were.
C25_SecondWaitIdle ==
    /\ [](SecondCall =>
            /\ pc[Main] \in {"wait_lock", "wait_set", "wait_test", "wait_unlock"}
            /\ threadsStopped = nthreads /\ acceptingJobs = 0
            /\ (Running /\ pc[Main] = "wait_lock") => ENABLED Wait_Lock
            /\ (Running /\ pc[Main] = "wait_unlock") => ENABLED Wait_Unlock)
    /\ [][SecondCall =>
            /\ UNCHANGED <<todo, acceptingJobs, threadsStopped, sigMain>>
            /\ \A w \in Workers : pc'[w] = pc[w]]_vars

\* C25 witness: the second call on a pool with workers has returned, with a
\* job that was submitted after the first call still in the list.
C25_Witness ==
    /\ waitReturns >= 2 /\ pc[Main] = "idle" /\ nthreads >= 1
    /\ todo # << >> /\ threadsStopped = nthreads /\ acceptingJobs = 0

\* C26: with nthreads = 0 no worker exists: JobQueue_waitOnJobs finds its loop
\* test false at once and returns without a broadcast or a wait, wakeMain is
\* never signalled, and every submitted job stays in the list, never executed
\* (until JobQueue_free frees it).
C26_NoWorkers ==
    nthreads = 0 =>
        /\ created = 0 /\ \A w \in Workers : pc[w] = "none"
        /\ threadsStopped = 0 /\ sigMain = 0
        /\ pc[Main] = "wait_test" => ~StillRunning
        /\ pc[Main] \notin {"wait_bcast", "wait_wait", "wait_blocked",
                            "wait_woken"}
        /\ (Running /\ pc[Main] = "wait_lock") => ENABLED Wait_Lock
        /\ \A j \in Linked : LeftInList(j)

\* C26 witness: a pool without workers was given two jobs, drained and freed;
\* both jobs were freed without having run.
C26_Witness ==
    /\ nthreads = 0 /\ jqState = "freed" /\ waitReturns >= 1
    /\ Len(todo) >= 2
    /\ \A j \in Pending : j \in jobFreed /\ invoked[j] = 0

====
